---- MODULE Spec2Model ----
(***************************************************************************)
(* License token issuing route of the authorization service                *)
(* (AuthorizationServiceApi.js, GET /:videoName, handler processGet).      *)
(*                                                                         *)
(* Values.  A byte is a number in 0..255 and a Buffer a sequence of bytes. *)
(* A hex string is a sequence of characters, a hex digit being its value   *)
(* 0..15 and "-" being Dash.  A base64 string is a sequence of sextets     *)
(* 0..63 followed by Pad characters.  A moment is a number of milliseconds *)
(* since 1970-01-01T00:00:00.000Z, and an ISO-8601 string the tuple        *)
(* <<year, month, day, hour, minute, second, millisecond>> of its fields.  *)
(***************************************************************************)
EXTENDS Integers, Sequences, FiniteSets, TLC

(***************************************************************************)
(* Bounds of the model.                                                    *)
(***************************************************************************)
\* Longest key list of a video in the catalog.
MaxKeys == 3
\* Longest key list of a video requested in the two-request specification.
MaxPairKeys == 2
\* Number of times the wall clock advances.
MaxTicks == 2
\* Milliseconds by which one advance moves the wall clock (12 h and 1 ms).
ClockStep == 43200001

(***************************************************************************)
(* Program constants.                                                      *)
(***************************************************************************)
NO_SUCH_VIDEO_STATUS_CODE == 400
NEED_TO_KNOW_SECRETS_STATUS_CODE == 500
\* The status Express answers with when a route handler throws.
INTERNAL_ERROR_STATUS_CODE == 500
\* "aes-256-cbc": 16-byte blocks, 32-byte key.
BlockSize == 16
AesKeySize == 32
\* now.clone().subtract(1, "days") / .add(1, "days"), in milliseconds.
DayMs == 86400000
\* "version": 1
EnvelopeVersion == 1

Dash == 16
Pad == 64

(***************************************************************************)
(* Buffers and their encodings.                                            *)
(***************************************************************************)
Fill(b, n) == [i \in 1..n |-> b]

Min(a, b) == IF a < b THEN a ELSE b

SubSeqFrom(s, i) == SubSeq(s, i, Len(s))

IsHexDigit(c) == c \in 0..15

\* Buffer.from(s, "hex"): one byte for each pair of hex digits, up to the
\* first pair that is not one; a trailing odd digit is dropped.
RECURSIVE HexDecode(_)
HexDecode(s) ==
    IF Len(s) < 2 \/ ~IsHexDigit(s[1]) \/ ~IsHexDigit(s[2])
    THEN <<>>
    ELSE <<16 * s[1] + s[2]>> \o HexDecode(SubSeqFrom(s, 3))

\* The matches of /[0-9a-f]{2}/g in s, left to right, as bytes.
RECURSIVE HexPairs(_)
HexPairs(s) ==
    IF Len(s) < 2 THEN <<>>
    ELSE IF IsHexDigit(s[1]) /\ IsHexDigit(s[2])
         THEN <<16 * s[1] + s[2]>> \o HexPairs(SubSeqFrom(s, 3))
         ELSE HexPairs(SubSeqFrom(s, 2))

\* uuid.parse(s): the first 16 matched bytes, zero-filled to 16 bytes.
uuid_parse(s) ==
    LET found == HexPairs(s)
        n == Min(Len(found), 16)
    IN  SubSeq(found, 1, n) \o Fill(0, 16 - n)

\* buffer.toString("base64")
RECURSIVE Base64Encode(_)
Base64Encode(b) ==
    IF Len(b) = 0 THEN <<>>
    ELSE IF Len(b) = 1
         THEN <<b[1] \div 4, (b[1] % 4) * 16, Pad, Pad>>
    ELSE IF Len(b) = 2
         THEN <<b[1] \div 4, (b[1] % 4) * 16 + b[2] \div 16, (b[2] % 16) * 4, Pad>>
    ELSE <<b[1] \div 4, (b[1] % 4) * 16 + b[2] \div 16,
           (b[2] % 16) * 4 + b[3] \div 64, b[3] % 64>>
         \o Base64Encode(SubSeqFrom(b, 4))

\* Buffer.from(s, "base64"): decoding stops at the first padding character;
\* a lone trailing sextet gives no byte.
RECURSIVE Base64Decode(_)
Base64Decode(s) ==
    IF Len(s) < 2 \/ s[1] = Pad \/ s[2] = Pad THEN <<>>
    ELSE LET b1 == s[1] * 4 + s[2] \div 16
         IN  IF Len(s) < 3 \/ s[3] = Pad THEN <<b1>>
             ELSE LET b2 == (s[2] % 16) * 16 + s[3] \div 4
                  IN  IF Len(s) < 4 \/ s[4] = Pad THEN <<b1, b2>>
                      ELSE <<b1, b2, (s[3] % 4) * 64 + s[4]>>
                           \o Base64Decode(SubSeqFrom(s, 5))

(***************************************************************************)
(* moment: toISOString() of an instant, in UTC.                            *)
(***************************************************************************)
\* Civil date of a day number (days since 1970-01-01), proleptic Gregorian.
CivilFromDays(z0) ==
    LET z   == z0 + 719468
        era == z \div 146097
        doe == z - era * 146097
        yoe == (doe - doe \div 1460 + doe \div 36524 - doe \div 146096) \div 365
        doy == doe - (365 * yoe + yoe \div 4 - yoe \div 100)
        mp  == (5 * doy + 2) \div 153
        d   == doy - (153 * mp + 2) \div 5 + 1
        m   == IF mp < 10 THEN mp + 3 ELSE mp - 9
        y   == yoe + era * 400 + (IF m <= 2 THEN 1 ELSE 0)
    IN  <<y, m, d>>

toISOString(t) ==
    LET days == t \div DayMs
        ms   == t % DayMs
    IN  CivilFromDays(days)
        \o <<ms \div 3600000, (ms \div 60000) % 60, (ms \div 1000) % 60, ms % 1000>>

\* Order of two ISO-8601 strings of four-digit years (field by field).
RECURSIVE IsoLeq(_, _)
IsoLeq(a, b) ==
    IF Len(a) = 0 THEN TRUE
    ELSE IF a[1] # b[1] THEN a[1] < b[1]
    ELSE IsoLeq(Tail(a), Tail(b))

(***************************************************************************)
(* crypto: the "aes-256-cbc" cipher with automatic padding switched off.   *)
(* AES itself is represented by a stand-in keyed permutation of 16-byte    *)
(* blocks; chaining, block handling and the errors are those of the        *)
(* library.                                                                *)
(***************************************************************************)
RECURSIVE XorBits(_, _, _)
XorBits(a, b, n) ==
    IF n = 0 THEN 0
    ELSE ((a + b) % 2) + 2 * XorBits(a \div 2, b \div 2, n - 1)

XorBlock(p, q) == [i \in 1..BlockSize |-> XorBits(p[i], q[i], 8)]

EncryptBlock(k, b) ==
    [i \in 1..BlockSize |->
        (b[(i % BlockSize) + 1] + k[i] + k[i + BlockSize] + 99) % 256]

\* crypto.createCipheriv("aes-256-cbc", key, iv)
createCipheriv(key, iv) ==
    IF Len(key) # AesKeySize THEN [threw |-> TRUE, error |-> "Invalid key length"]
    ELSE IF Len(iv) # BlockSize THEN [threw |-> TRUE, error |-> "Invalid IV length"]
    ELSE [threw |-> FALSE, error |-> ""]

\* CBC over the whole blocks of data: each block is XORed with the previous
\* ciphertext block (the IV for the first) and then encrypted.
RECURSIVE CbcBlocks(_, _, _)
CbcBlocks(key, chain, data) ==
    IF Len(data) < BlockSize THEN <<>>
    ELSE LET c == EncryptBlock(key, XorBlock(SubSeq(data, 1, BlockSize), chain))
         IN  c \o CbcBlocks(key, c, SubSeqFrom(data, BlockSize + 1))

\* encryptor.update(data): the ciphertext of the whole blocks of data.
CipherUpdate(key, iv, data) == CbcBlocks(key, iv, data)

\* The block the next one is chained to, once data has gone through update.
ChainAfter(key, iv, data) ==
    LET out == CbcBlocks(key, iv, data)
    IN  IF Len(out) = 0 THEN iv ELSE SubSeq(out, Len(out) - BlockSize + 1, Len(out))

\* encryptor.final() with automatic padding left on: the bytes left over are
\* padded to a whole block, which is encrypted; nothing is thrown.
CipherFinalAutoPadding(key, iv, data) ==
    LET rest   == SubSeqFrom(data, Len(data) - (Len(data) % BlockSize) + 1)
        padLen == BlockSize - Len(rest)
        block  == rest \o Fill(padLen, padLen)
    IN  [threw |-> FALSE, error |-> "",
         out |-> EncryptBlock(key, XorBlock(block, ChainAfter(key, iv, data)))]

\* encryptor.final() after setAutoPadding(false), the encryptor made with
\* key and iv having been given data: throws when bytes short of a block
\* are left over, and otherwise adds nothing.
CipherFinal(key, iv, data) ==
    IF Len(data) % BlockSize # 0
    THEN [threw |-> TRUE, error |-> "wrong final block length", out |-> <<>>]
    ELSE [threw |-> FALSE, error |-> "", out |-> <<>>]

(***************************************************************************)
(* JSON.stringify and jwt.sign.                                            *)
(***************************************************************************)
\* JSON text of an object: its members in insertion order.
StringifyKey(k) == << <<"id", k.id>>, <<"encrypted_key", k.encrypted_key>> >>

StringifyMessage(m) ==
    << <<"type", m.type>>,
       <<"begin_date", m.begin_date>>,
       <<"expiration_date", m.expiration_date>>,
       <<"keys", [i \in 1..Len(m.keys) |-> StringifyKey(m.keys[i])]>> >>

JSON_stringify(e) ==
    << <<"version", e.version>>,
       <<"com_key_id", e.com_key_id>>,
       <<"message", StringifyMessage(e.message)>>,
       <<"begin_date", e.begin_date>>,
       <<"expiration_date", e.expiration_date>> >>

\* jwt.sign(payload, key, {algorithm: "HS256"}): header, payload and the
\* HMAC-SHA256 of both under key (a symbolic MAC).  The library adds the
\* issued-at claim, in seconds, to the payload it signs.
jwt_sign(payload, key, clockNow) ==
    LET header == << <<"alg", "HS256">>, <<"typ", "JWT">> >>
        body   == Append(JSON_stringify(payload), <<"iat", clockNow \div 1000>>)
    IN  <<"jwt", header, body, <<"HMAC-SHA256", key, header, body>> >>

(***************************************************************************)
(* State.                                                                  *)
(*   secrets  what secretManagement holds: whether the secrets are         *)
(*            available, the communication key (hex) and its identifier    *)
(*   clock    the wall clock moment() reads                                *)
(*   request  request.params.videoName of the request routed to the        *)
(*            handler and not yet handled, or NoRequest                    *)
(*   last     what the handler did for the latest request: its calls, log  *)
(*            lines and responses in order, or NoRun                       *)
(*   prev     the same for the request handled before it, or NoRun         *)
(***************************************************************************)
VARIABLES secrets, clock, request, prev, last

vars == <<secrets, clock, request, prev, last>>

NoRequest == <<"none">>
NoRun == [name |-> NoRequest, trace |-> <<>>, threw |-> FALSE]

\* JavaScript values of video.licenseToken and what "if (v)" makes of them.
Undefined == <<"undefined">>
Str(s) == <<"string", s>>
Truthy(v) == v[1] # "undefined" /\ ~(v[1] = "string" /\ v[2] = "")

(***************************************************************************)
(* VideoDatabase: the catalog.  It holds one video for every key list of   *)
(* at most MaxKeys keys drawn from KeyMaterial, without and with a         *)
(* hardcoded license token; the video's name tells its content.  The i-th  *)
(* key of a video has the key ID KeyIdOf(i).                               *)
(***************************************************************************)
KeyMaterial == {<<>>, Fill(7, 15), Fill(0, 16), Fill(165, 16), Fill(3, 32)}
PairKeyMaterial == {Fill(7, 15), Fill(0, 16), Fill(165, 16)}

KeyLists(material, n) == UNION {[1..k -> material] : k \in 0..n}

HardcodedToken == Str("hardcoded.license.token")
LicenseTokens == {Undefined, HardcodedToken}

KeyIdOf(i) ==
    Fill(i, 8) \o <<Dash>> \o Fill(i, 4) \o <<Dash>> \o Fill(i, 4) \o <<Dash>>
    \o Fill(i, 4) \o <<Dash>> \o Fill(i, 12)

UnknownName == <<"unknown">>
CatalogNames == {<<"video", ks, t>> : ks \in KeyLists(KeyMaterial, MaxKeys), t \in LicenseTokens}
VideoNames == CatalogNames \cup {UnknownName}
PairVideoNames ==
    {<<"video", ks, Undefined>> : ks \in KeyLists(PairKeyMaterial, MaxPairKeys)}
    \cup {<<"video", <<Fill(7, 15)>>, HardcodedToken>>, UnknownName}

\* videoDatabase.getVideoByName(name)
getVideoByName(name) ==
    IF name \in CatalogNames
    THEN [defined |-> TRUE,
          keys |-> [i \in 1..Len(name[2]) |->
                       [keyId |-> KeyIdOf(i), key |-> Base64Encode(name[2][i])]],
          licenseToken |-> name[3]]
    ELSE [defined |-> FALSE, keys |-> <<>>, licenseToken |-> Undefined]

(***************************************************************************)
(* SecretManagement.                                                       *)
(***************************************************************************)
HexKey(d) == Fill(d, 2 * AesKeySize)

SecretStates ==
    { [available |-> FALSE, communicationKey |-> <<>>, communicationKeyId |-> ""],
      [available |-> TRUE, communicationKey |-> HexKey(1), communicationKeyId |-> "c1"],
      [available |-> TRUE, communicationKey |-> HexKey(10), communicationKeyId |-> "c2"] }

areSecretsAvailable == secrets.available

getSecrets == secrets

(***************************************************************************)
(* What a run holds: its events are tuples that start with the name of the *)
(* call.                                                                   *)
(***************************************************************************)
Events(run, tag) == SelectSeq(run.trace, LAMBDA e : e[1] = tag)
Positions(run, tag) == {i \in DOMAIN run.trace : run.trace[i][1] = tag}
Responses(run) == Events(run, "response")
\* console.log lines that carry a payload, and the envelopes handed to jwt.sign.
PayloadLogs(run) == SelectSeq(run.trace, LAMBDA e : e[1] = "console.log" /\ Len(e) = 3)
Signed(run) == Events(run, "jwt.sign")

(***************************************************************************)
(* processGet.                                                             *)
(***************************************************************************)
\* response.status(code).send(text) and response.json(value)
Send(code, text) == <<"response", code, "send", <<"text", text>> >>
Json(value) == <<"response", 200, "json", value>>

\* if (!video)
NoSuchVideo(video) == ~video.defined

\* The same test made on the type of the token: if (typeof video.licenseToken === "object")
LicenseTokenIsObject(video) == video.licenseToken[1] = "object"

\* if (video.licenseToken)
HasLicenseToken(video) == Truthy(video.licenseToken)

\* The handler without the check of the secrets.
SecretsMissingNever == FALSE

\* if (!secretManagement.areSecretsAvailable())
SecretsMissing == ~areSecretsAvailable

\* The keys of a message object that outlives the request: those of the
\* envelope built for the request before.
SharedKeys == IF Len(Signed(last)) = 0 THEN <<>> ELSE Signed(last)[1][2].message.keys

\* "keys": [] of the message literal.
NewKeys == <<>>

\* An IV taken from the time of the request instead of the key ID.
IvOfClock(key) == Fill((clock \div ClockStep) % 256, BlockSize)

\* The Key ID is the IV: Buffer.from(uuid.parse(key.keyId))
IvOf(key) == uuid_parse(key.keyId)

\* message.keys.unshift(wrapped)
Unshift(keys, wrapped) == <<wrapped>> \o keys

\* message.keys.push(wrapped)
Push(keys, wrapped) == Append(keys, wrapped)

\* One turn of video.keys.forEach: the key wrapped under the communication
\* key with its key ID as the IV, or the exception thrown on the way.
WrapKey(key, communicationKeyAsBuffer) ==
    LET keyAsBuffer   == Base64Decode(key.key)
        keyIdAsBuffer == IvOf(key)
        encryptor     == createCipheriv(communicationKeyAsBuffer, keyIdAsBuffer)
        updated       == CipherUpdate(communicationKeyAsBuffer, keyIdAsBuffer, keyAsBuffer)
        final         == CipherFinal(communicationKeyAsBuffer, keyIdAsBuffer, keyAsBuffer)
    IN  IF encryptor.threw
        THEN [threw |-> TRUE, error |-> encryptor.error, id |-> key.keyId, encrypted_key |-> <<>>]
        ELSE IF final.threw
        THEN [threw |-> TRUE, error |-> final.error, id |-> key.keyId, encrypted_key |-> <<>>]
        ELSE [threw |-> FALSE, error |-> "", id |-> key.keyId,
              encrypted_key |-> Base64Encode(updated \o final.out)]

\* video.keys.forEach(...) from the i-th key on: acc holds message.keys, the
\* calls made so far and whether an exception has ended the loop.
RECURSIVE forEachKey(_, _, _, _)
forEachKey(keys, i, communicationKeyAsBuffer, acc) ==
    IF i > Len(keys) THEN acc
    ELSE LET w == WrapKey(keys[i], communicationKeyAsBuffer)
             called == Append(acc.trace, <<"createCipheriv", i>>)
         IN  IF w.threw
             THEN [keys |-> acc.keys, threw |-> TRUE,
                   trace |-> Append(called, <<"throw", w.error>>)]
             ELSE forEachKey(keys, i + 1, communicationKeyAsBuffer,
                    [keys |-> Push(acc.keys, [id |-> w.id, encrypted_key |-> w.encrypted_key]),
                     threw |-> FALSE,
                     trace |-> Append(called, <<"push", i>>)])

\* The message literal.
Message(validFrom, validTo, keys) ==
    [type |-> "entitlement_message",
     begin_date |-> toISOString(validFrom),
     expiration_date |-> toISOString(validTo),
     keys |-> keys]

\* The envelope literal with validFrom written for both of its dates.
EnvelopeExpiringAtStart(communicationKeyId, message, validFrom, validTo) ==
    [version |-> EnvelopeVersion,
     com_key_id |-> communicationKeyId,
     message |-> message,
     begin_date |-> toISOString(validFrom),
     expiration_date |-> toISOString(validFrom)]

\* The envelope literal.
Envelope(communicationKeyId, message, validFrom, validTo) ==
    [version |-> EnvelopeVersion,
     com_key_id |-> communicationKeyId,
     message |-> message,
     begin_date |-> toISOString(validFrom),
     expiration_date |-> toISOString(validTo)]

\* The end of processGet with the log line moved behind the response.
IssueTokenThenLog(envelope, communicationKeyAsBuffer) ==
    << <<"jwt.sign", envelope>>,
       Json(jwt_sign(envelope, communicationKeyAsBuffer, clock)),
       <<"console.log", "Creating license token with payload: ", JSON_stringify(envelope)>> >>

\* The end of processGet: the envelope is logged, then signed, and the token
\* is the response.
IssueToken(envelope, communicationKeyAsBuffer) ==
    << <<"console.log", "Creating license token with payload: ", JSON_stringify(envelope)>>,
       <<"jwt.sign", envelope>>,
       Json(jwt_sign(envelope, communicationKeyAsBuffer, clock)) >>

\* The part of processGet that generates a license token, reached when the
\* secrets are available.
GenerateToken(video, called) ==
    LET communicationKeyAsBuffer == HexDecode(getSecrets.communicationKey)
        now       == clock
        validFrom == now - DayMs
        validTo   == now + DayMs
        loop      == forEachKey(video.keys, 1, communicationKeyAsBuffer,
                        [keys |-> NewKeys, threw |-> FALSE,
                         trace |-> called \o << <<"getSecrets">>, <<"moment", now>> >>])
        message   == Message(validFrom, validTo, loop.keys)
        envelope  == Envelope(getSecrets.communicationKeyId, message, validFrom, validTo)
    IN  IF loop.threw
        THEN [trace |-> loop.trace, threw |-> TRUE]
        ELSE [trace |-> loop.trace \o IssueToken(envelope, communicationKeyAsBuffer),
              threw |-> FALSE]

SecretsUnavailableLine == "You must configure the secrets file to generate license tokens."

\* processGet with the secrets checked before the hardcoded token is looked at.
processGetSecretsFirst(videoName) ==
    LET video  == getVideoByName(videoName)
        looked == << <<"getVideoByName", videoName>> >>
        asked  == Append(looked, <<"areSecretsAvailable", areSecretsAvailable>>)
    IN  IF NoSuchVideo(video)
        THEN [trace |-> Append(looked, Send(NO_SUCH_VIDEO_STATUS_CODE, "No such video")),
              threw |-> FALSE]
        ELSE IF SecretsMissing
        THEN [trace |-> asked
                        \o << <<"console.log", "ERROR: You must configure the secrets file to generate license tokens.">>,
                              Send(NEED_TO_KNOW_SECRETS_STATUS_CODE, SecretsUnavailableLine) >>,
              threw |-> FALSE]
        ELSE IF HasLicenseToken(video)
        THEN [trace |-> Append(asked, Json(video.licenseToken)), threw |-> FALSE]
        ELSE GenerateToken(video, asked)

processGet(videoName) ==
    LET video  == getVideoByName(videoName)
        looked == << <<"getVideoByName", videoName>> >>
        asked  == Append(looked, <<"areSecretsAvailable", areSecretsAvailable>>)
    IN  IF NoSuchVideo(video)
        THEN [trace |-> Append(looked, Send(NO_SUCH_VIDEO_STATUS_CODE, "No such video")),
              threw |-> FALSE]
        ELSE IF HasLicenseToken(video)
        THEN [trace |-> Append(looked, Json(video.licenseToken)), threw |-> FALSE]
        ELSE IF SecretsMissing
        THEN [trace |-> asked
                        \o << <<"console.log", "ERROR: You must configure the secrets file to generate license tokens.">>,
                              Send(NEED_TO_KNOW_SECRETS_STATUS_CODE, SecretsUnavailableLine) >>,
              threw |-> FALSE]
        ELSE GenerateToken(video, asked)

\* router.get("/:videoName", processGet): Express calls the handler and, when
\* it throws, answers the request itself with an internal server error (its
\* body tells of the exception and holds nothing the handler built).
RouteGet(videoName) ==
    LET run == processGet(videoName)
    IN  [name  |-> videoName,
         threw |-> run.threw,
         trace |-> IF run.threw
                   THEN Append(run.trace, Send(INTERNAL_ERROR_STATUS_CODE, "Internal Server Error"))
                   ELSE run.trace]

(***************************************************************************)
(* Actions.                                                                *)
(***************************************************************************)
Init ==
    /\ secrets \in SecretStates
    /\ clock = 0
    /\ request = NoRequest
    /\ prev = NoRun
    /\ last = NoRun

\* Time passes.
Tick ==
    /\ clock < MaxTicks * ClockStep
    /\ clock' = clock + ClockStep
    /\ UNCHANGED <<secrets, request, prev, last>>

\* A GET /:videoName request is routed to the handler.
Receive(videoName) ==
    /\ request = NoRequest
    /\ last = NoRun
    /\ request' = videoName
    /\ UNCHANGED <<secrets, clock, prev, last>>

\* The same, a second request being taken after a first was answered.
ReceiveNext(videoName) ==
    /\ request = NoRequest
    /\ prev = NoRun
    /\ request' = videoName
    /\ UNCHANGED <<secrets, clock, prev, last>>

\* The handler runs to completion for the routed request.
ProcessGet ==
    /\ request # NoRequest
    /\ last' = RouteGet(request)
    /\ prev' = last
    /\ request' = NoRequest
    /\ UNCHANGED <<secrets, clock>>

\* The answered requests are done with; nothing of them is kept.
Forget ==
    /\ request = NoRequest
    /\ last # NoRun
    /\ last' = NoRun
    /\ prev' = NoRun
    /\ UNCHANGED <<secrets, clock, request>>

Next ==
    \/ Tick
    \/ \E videoName \in VideoNames : Receive(videoName)
    \/ ProcessGet
    \/ Forget

Spec == Init /\ [][Next]_vars

NextPair ==
    \/ Tick
    \/ \E videoName \in PairVideoNames : ReceiveNext(videoName)
    \/ ProcessGet
    \/ Forget

SpecPair == Init /\ [][NextPair]_vars

(***************************************************************************)
(* Properties.  They speak of last, the run of the latest request, and of  *)
(* prev, the run before it.                                                *)
(***************************************************************************)
Handled(run) == Len(run.trace) > 0
VideoOf(run) == getVideoByName(run.name)
CarriesToken(video) == video.defined /\ video.licenseToken # Undefined
KeyBytes(video, i) == Base64Decode(video.keys[i].key)
WholeBlocks(bytes) == Len(bytes) % 16 = 0
Count(run, tag) == Cardinality(Positions(run, tag))
\* The request reached the generation of a token.
Building(run) ==
    /\ Handled(run)
    /\ VideoOf(run).defined
    /\ ~CarriesToken(VideoOf(run))
    /\ secrets.available
\* The token of a response, when it is one jwt.sign made.
IsFreshToken(response) == response[3] = "json" /\ response[4][1] = "jwt"
SucceededWith(run) == Len(Responses(run)) = 1 /\ IsFreshToken(Responses(run)[1])
InternalError == <<"response", 500, "send", <<"text", "Internal Server Error">> >>

\* C1: every handled request ends in exactly one response, which is the last
\* thing the handler does, chosen by the first step that matches: 400 for an
\* unknown video, else the hardcoded token, else 500 when the secrets are
\* unavailable, else the freshly signed token or an internal error (500);
\* no step is taken twice.
C1_OneTerminalOutcome ==
    Handled(last) =>
        LET video == VideoOf(last)
            rs    == Responses(last)
        IN  /\ Len(rs) = 1
            /\ last.trace[Len(last.trace)][1] = "response"
            /\ Count(last, "getVideoByName") = 1
            /\ Count(last, "areSecretsAvailable") <= 1
            /\ Count(last, "jwt.sign") <= 1
            /\ \A i, j \in Positions(last, "createCipheriv") :
                   last.trace[i][2] = last.trace[j][2] => i = j
            /\ IF ~video.defined
               THEN rs[1] = <<"response", 400, "send", <<"text", "No such video">> >>
               ELSE IF CarriesToken(video)
               THEN rs[1] = <<"response", 200, "json", video.licenseToken>>
               ELSE IF ~secrets.available
               THEN rs[1] = <<"response", 500, "send", <<"text", SecretsUnavailableLine>> >>
               ELSE \/ /\ ~last.threw
                       /\ rs[1][2] = 200
                       /\ IsFreshToken(rs[1])
                       /\ Len(Signed(last)) = 1
                       /\ SubSeq(rs[1][4][3], 1, 5) = JSON_stringify(Signed(last)[1][2])
                    \/ /\ last.threw
                       /\ rs[1] = InternalError

C1_Witness ==
    /\ Building(last)
    /\ SucceededWith(last)
    /\ Len(VideoOf(last).keys) = 2

\* C2: for a video with a hardcoded token the response is that token and
\* nothing else happens: no check of the secrets, no wrapping, no envelope,
\* no signature and no log line, whatever the secrets and the video's keys.
C2_HardcodedTokenShortCircuits ==
    (Handled(last) /\ CarriesToken(VideoOf(last))) =>
        /\ Responses(last) = << <<"response", 200, "json", VideoOf(last).licenseToken>> >>
        /\ Len(last.trace) = 2
        /\ \A tag \in {"areSecretsAvailable", "getSecrets", "moment", "createCipheriv",
                       "push", "throw", "console.log", "jwt.sign"} :
               Count(last, tag) = 0

\* A hardcoded token is answered while the secrets are unavailable and a key
\* of the video is malformed.
C2_Witness ==
    /\ Handled(last)
    /\ CarriesToken(VideoOf(last))
    /\ ~secrets.available
    /\ \E i \in DOMAIN VideoOf(last).keys : ~WholeBlocks(KeyBytes(VideoOf(last), i))
    /\ Len(Responses(last)) = 1

\* C3: with the secrets unavailable a request for a video without a
\* hardcoded token is answered 500 and nothing is wrapped or signed; every
\* wrap and every signature comes after a check of the secrets that said
\* they are available, and the key that signs is never empty.
C3_SecretsCheckedFirst ==
    Handled(last) =>
        /\ (VideoOf(last).defined /\ ~CarriesToken(VideoOf(last)) /\ ~secrets.available) =>
              /\ Responses(last)
                   = << <<"response", 500, "send", <<"text", SecretsUnavailableLine>> >> >>
              /\ Count(last, "createCipheriv") = 0
              /\ Count(last, "jwt.sign") = 0
        /\ \A i \in Positions(last, "createCipheriv") \cup Positions(last, "jwt.sign") :
              \E j \in Positions(last, "areSecretsAvailable") :
                  j < i /\ last.trace[j][2] = TRUE
        /\ \A i \in DOMAIN last.trace :
              (last.trace[i][1] = "response" /\ IsFreshToken(last.trace[i]))
                  => Len(last.trace[i][4][4][2]) > 0

C3_Witness ==
    /\ Handled(last)
    /\ VideoOf(last).defined
    /\ ~CarriesToken(VideoOf(last))
    /\ ~secrets.available
    /\ Len(VideoOf(last).keys) > 0
    /\ Responses(last)[1][2] = 500

\* C4: when the wrapping of any key of the list fails, the request fails as
\* a whole: no envelope is logged, nothing is signed, the only response is
\* the internal error, and nothing wrapped is given out, also when keys
\* before the failing one were wrapped.
C4_NoPartialEnvelope ==
    (Building(last)
       /\ \E i \in DOMAIN VideoOf(last).keys : ~WholeBlocks(KeyBytes(VideoOf(last), i))) =>
        /\ last.threw
        /\ Count(last, "console.log") = 0
        /\ Count(last, "jwt.sign") = 0
        /\ Responses(last) = <<InternalError>>

\* The second of three keys fails after the first was wrapped.
C4_Witness ==
    /\ Building(last)
    /\ Len(VideoOf(last).keys) = 3
    /\ WholeBlocks(KeyBytes(VideoOf(last), 1))
    /\ ~WholeBlocks(KeyBytes(VideoOf(last), 2))
    /\ Count(last, "push") = 1
    /\ last.threw

\* The envelope handed to jwt.sign in a run that signed.
EnvelopeOf(run) == Signed(run)[1][2]
\* The moment() a run read.
NowOf(run) == Events(run, "moment")[1][2]
\* The "keys" member of the JSON text of an envelope.
JsonKeys(json) == json[3][2][4][2]

\* C5: in every envelope built, message.keys is as long as the video's key
\* list and its i-th entry has the i-th key's ID: in the envelope signed, in
\* the one logged and in the token's payload.
C5_KeysInOrder ==
    (Handled(last) /\ Len(Signed(last)) > 0) =>
        LET keys   == VideoOf(last).keys
            built  == EnvelopeOf(last).message.keys
            logged == JsonKeys(PayloadLogs(last)[1][3])
            sent   == JsonKeys(Responses(last)[1][4][3])
        IN  /\ Len(built) = Len(keys)
            /\ Len(logged) = Len(keys)
            /\ Len(sent) = Len(keys)
            /\ \A i \in DOMAIN keys :
                  /\ built[i].id = keys[i].keyId
                  /\ logged[i][1] = <<"id", keys[i].keyId>>
                  /\ sent[i][1] = <<"id", keys[i].keyId>>

C5_Witness ==
    /\ Building(last)
    /\ SucceededWith(last)
    /\ Len(VideoOf(last).keys) = 3
    /\ Len(EnvelopeOf(last).message.keys) = 3

\* C6: in every envelope built the window of the message is the window of
\* the envelope, and it is the day before to the day after the one moment
\* the request read, so begin_date <= now <= expiration_date.
C6_WindowsEqual ==
    (Handled(last) /\ Len(Signed(last)) > 0) =>
        LET e == EnvelopeOf(last)
        IN  /\ Count(last, "moment") = 1
            /\ e.message.begin_date = e.begin_date
            /\ e.message.expiration_date = e.expiration_date
            /\ e.begin_date = toISOString(NowOf(last) - 86400000)
            /\ e.expiration_date = toISOString(NowOf(last) + 86400000)
            /\ IsoLeq(e.begin_date, toISOString(NowOf(last)))
            /\ IsoLeq(toISOString(NowOf(last)), e.expiration_date)
            /\ e.begin_date # e.expiration_date

\* An envelope built after the clock has moved on.
C6_Witness ==
    /\ Handled(last)
    /\ Len(Signed(last)) > 0
    /\ NowOf(last) > 0
    /\ EnvelopeOf(last).begin_date[1] = 1969

\* C8: a key is wrapped only when it is one or more whole 16-byte blocks
\* long; any other length, the empty key included, ends the request with an
\* error; the ciphertext of a wrapped key is as long as the key.
C8_OnlyWholeNonEmptyBlocks ==
    Building(last) =>
        /\ \A p \in Positions(last, "push") :
              LET bytes == KeyBytes(VideoOf(last), last.trace[p][2])
              IN  Len(bytes) >= 16 /\ Len(bytes) % 16 = 0
        /\ \A p \in Positions(last, "createCipheriv") :
              LET bytes == KeyBytes(VideoOf(last), last.trace[p][2])
              IN  ~(Len(bytes) >= 16 /\ Len(bytes) % 16 = 0)
                      => last.trace[p + 1][1] = "throw"
        /\ Len(Signed(last)) > 0 =>
              \A i \in DOMAIN EnvelopeOf(last).message.keys :
                  Len(Base64Decode(EnvelopeOf(last).message.keys[i].encrypted_key))
                      = Len(KeyBytes(VideoOf(last), i))

\* C9: the envelope is logged exactly once when a token is built, after
\* every key was wrapped and before it is signed; a response with a fresh
\* token comes after the log line of the envelope signed; no envelope is
\* logged on any other path.
C9_EnvelopeLoggedOnceBeforeSigning ==
    Handled(last) =>
        LET logs == {i \in Positions(last, "console.log") : Len(last.trace[i]) = 3}
        IN  /\ Cardinality(logs) = (IF Building(last) /\ ~last.threw THEN 1 ELSE 0)
            /\ \A r \in Positions(last, "response") :
                  IsFreshToken(last.trace[r]) =>
                      \E l \in logs, s \in Positions(last, "jwt.sign") :
                          /\ l < s
                          /\ s < r
                          /\ \A w \in Positions(last, "createCipheriv")
                                        \cup Positions(last, "push") : w < l
                          /\ Count(last, "push") = Len(VideoOf(last).keys)
                          /\ last.trace[l][3] = JSON_stringify(last.trace[s][2])
                          /\ SubSeq(last.trace[r][4][3], 1, 5) = last.trace[l][3]

C9_Witness ==
    /\ Building(last)
    /\ SucceededWith(last)
    /\ Count(last, "push") = 2
    /\ Cardinality({i \in Positions(last, "console.log") : Len(last.trace[i]) = 3}) = 1

\* C7: wrapping and building are deterministic.  Two requests for the same
\* video at the same moment build the same envelope, and a key with the same
\* bytes and the same ID is wrapped to the same value in any two requests,
\* whatever the other keys of its list and whenever it is wrapped.
C7_Deterministic ==
    (Len(Signed(prev)) > 0 /\ Len(Signed(last)) > 0) =>
        /\ (prev.name = last.name /\ NowOf(prev) = NowOf(last))
              => /\ EnvelopeOf(prev) = EnvelopeOf(last)
                 /\ PayloadLogs(prev) = PayloadLogs(last)
        /\ \A i \in DOMAIN VideoOf(prev).keys, j \in DOMAIN VideoOf(last).keys :
              VideoOf(prev).keys[i] = VideoOf(last).keys[j]
                  => EnvelopeOf(prev).message.keys[i] = EnvelopeOf(last).message.keys[j]

\* The same first key, wrapped at two moments beside different second keys.
C7_Witness ==
    /\ Len(Signed(prev)) > 0
    /\ Len(Signed(last)) > 0
    /\ NowOf(prev) # NowOf(last)
    /\ Len(VideoOf(prev).keys) = 2
    /\ Len(VideoOf(last).keys) = 2
    /\ VideoOf(prev).keys[1] = VideoOf(last).keys[1]
    /\ VideoOf(prev).keys[2] # VideoOf(last).keys[2]

\* The wrapped keys of a run's envelope are those of its own video's key
\* list, each wrapped under the communication key, and no others.
OwnKeysOnly(run) ==
    Len(Signed(run)) > 0 =>
        LET keys  == VideoOf(run).keys
            built == EnvelopeOf(run).message.keys
        IN  /\ Len(built) = Len(keys)
            /\ \A i \in DOMAIN keys :
                  built[i] = [id |-> keys[i].keyId,
                              encrypted_key |->
                                  Base64Encode(CbcBlocks(HexDecode(secrets.communicationKey),
                                                         uuid_parse(keys[i].keyId),
                                                         Base64Decode(keys[i].key)))]

\* C10: requests are independent.  Of two requests handled one after the
\* other, in either order, each token holds the wrapped keys of its own
\* video only, and a request repeated gets the answer it got before: the
\* same response when no token is built or the moment is the same.
C10_RequestsIndependent ==
    (Handled(prev) /\ Handled(last)) =>
        /\ OwnKeysOnly(prev)
        /\ OwnKeysOnly(last)
        /\ (prev.name = last.name /\ Len(Signed(last)) = 0)
              => Responses(prev) = Responses(last)
        /\ (prev.name = last.name /\ Len(Signed(last)) > 0 /\ Len(Signed(prev)) > 0
              /\ NowOf(prev) = NowOf(last))
              => Responses(prev) = Responses(last)

\* A token for a video of one key, built after a token for a video of two.
C10_Witness ==
    /\ Len(Signed(prev)) > 0
    /\ Len(Signed(last)) > 0
    /\ Len(VideoOf(prev).keys) = 2
    /\ Len(VideoOf(last).keys) = 1
    /\ SucceededWith(last)

====
